---------------------------- MODULE Spec2Model ----------------------------
(***************************************************************************)
(* A model of mediasorter.py: sort_tv_file, sort_movie_file and sort_file. *)
(* Python strings are sequences of one-character strings, so that          *)
(* splitting, regular-expression matching, int(), replace() and format()   *)
(* are computed character by character as the interpreter computes them.   *)
(* Python's 0-based indices are kept: split_filename[0:k] is               *)
(* SubSeq(split_filename, 1, k).                                           *)
(***************************************************************************)
EXTENDS Integers, Sequences, FiniteSets, TLC

(***************************************************************************)
(* Bounds of the explored inputs.                                          *)
(***************************************************************************)
MaxTokens == 3
MaxSeries == 2
MaxMovies == 2
MaxChildren == 2
MaxStemLen == 5
MaxDelims == 2

(***************************************************************************)
(* Characters and strings.                                                 *)
(***************************************************************************)
Digits == {"0", "1", "2", "3", "4", "5", "6", "7", "8", "9"}

DigitSeq == <<"0", "1", "2", "3", "4", "5", "6", "7", "8", "9">>

UpperChars ==
  <<"A", "B", "C", "D", "E", "F", "G", "H", "I", "J", "K", "L", "M",
    "N", "O", "P", "Q", "R", "S", "T", "U", "V", "W", "X", "Y", "Z">>

LowerChars ==
  <<"a", "b", "c", "d", "e", "f", "g", "h", "i", "j", "k", "l", "m",
    "n", "o", "p", "q", "r", "s", "t", "u", "v", "w", "x", "y", "z">>

\* str.lower() on one character
LowerChar(c) ==
  IF \E i \in 1..26 : UpperChars[i] = c
  THEN LowerChars[CHOOSE i \in 1..26 : UpperChars[i] = c]
  ELSE c

\* str.lower()
Lower(s) == [i \in 1..Len(s) |-> LowerChar(s[i])]

\* int(c) of one decimal digit
DigitVal(c) == (CHOOSE i \in 1..10 : DigitSeq[i] = c) - 1

\* int(s) of a string of decimal digits
RECURSIVE ToInt(_)
ToInt(s) ==
  IF Len(s) = 0 THEN 0
  ELSE 10 * ToInt(SubSeq(s, 1, Len(s) - 1)) + DigitVal(s[Len(s)])

\* str.split(sep) for a one-character separator: always at least one token
RECURSIVE StrSplit(_, _)
StrSplit(s, sep) ==
  IF \A i \in 1..Len(s) : s[i] # sep THEN <<s>>
  ELSE LET p == CHOOSE q \in 1..Len(s) :
                  s[q] = sep /\ \A k \in 1..(q - 1) : s[k] # sep
       IN  <<SubSeq(s, 1, p - 1)>> \o StrSplit(SubSeq(s, p + 1, Len(s)), sep)

\* sep.join(parts)
RECURSIVE StrJoin(_, _)
StrJoin(parts, sep) ==
  IF Len(parts) = 0 THEN <<>>
  ELSE IF Len(parts) = 1 THEN parts[1]
  ELSE parts[1] \o sep \o StrJoin(Tail(parts), sep)

\* str.replace(old, new) for a one-character old
StrReplace(s, old, new) ==
  LET RECURSIVE R(_)
      R(t) == IF Len(t) = 0 THEN <<>>
              ELSE (IF t[1] = old THEN new ELSE <<t[1]>>) \o R(Tail(t))
  IN  R(s)

\* number of occurrences of character c in s
Count(s, c) == Cardinality({i \in 1..Len(s) : s[i] = c})

\* os.path.splitext(basename): the extension starts at the last dot, unless
\* that dot is one of the leading dots of the name
SplitExt(b) ==
  LET dots == {i \in 1..Len(b) : b[i] = "."}
      last == CHOOSE i \in dots : \A k \in dots : k <= i
  IN  IF dots = {} \/ (\A k \in 1..last : b[k] = ".")
      THEN <<b, <<>>>>
      ELSE <<SubSeq(b, 1, last - 1), SubSeq(b, last, Len(b))>>

(***************************************************************************)
(* The regular expressions of the source, as matchers on positions.        *)
(***************************************************************************)
\* end of the maximal run of digits that starts at position i (i - 1 if none)
RunEnd(s, i) ==
  CHOOSE j \in (i - 1)..Len(s) :
    /\ \A k \in i..j : s[k] \in Digits
    /\ (j = Len(s) \/ s[j + 1] \notin Digits)

\* '[Ss][0-9]+[Ee][0-9]+' matches at position i
SxxEyyAt(s, i) ==
  /\ i + 3 <= Len(s)
  /\ s[i] \in {"S", "s"}
  /\ s[i + 1] \in Digits
  /\ LET j == RunEnd(s, i + 1)
     IN  /\ j + 2 <= Len(s)
         /\ s[j + 1] \in {"E", "e"}
         /\ s[j + 2] \in Digits

\* '[Ss][0-9]+' matches at position i
SxxAt(s, i) == i + 1 <= Len(s) /\ s[i] \in {"S", "s"} /\ s[i + 1] \in Digits

\* '[Ee][0-9]+' matches at position i
EyyAt(s, i) == i + 1 <= Len(s) /\ s[i] \in {"E", "e"} /\ s[i + 1] \in Digits

\* '[Ee]pisode' matches at position i
EpisodeAt(s, i) ==
  /\ i + 6 <= Len(s)
  /\ s[i] \in {"E", "e"}
  /\ SubSeq(s, i + 1, i + 6) = <<"p", "i", "s", "o", "d", "e">>

SearchSxxEyy(s) == \E i \in 1..Len(s) : SxxEyyAt(s, i)
SearchSxx(s) == \E i \in 1..Len(s) : SxxAt(s, i)
SearchEyy(s) == \E i \in 1..Len(s) : EyyAt(s, i)
SearchEpisode(s) == \E i \in 1..Len(s) : EpisodeAt(s, i)

\* position of the leftmost match (the pattern is known to match)
FirstSxxEyy(s) ==
  CHOOSE i \in 1..Len(s) : SxxEyyAt(s, i) /\ \A k \in 1..(i - 1) : ~SxxEyyAt(s, k)

FirstSxx(s) ==
  CHOOSE i \in 1..Len(s) : SxxAt(s, i) /\ \A k \in 1..(i - 1) : ~SxxAt(s, k)

FirstEyy(s) ==
  CHOOSE i \in 1..Len(s) : EyyAt(s, i) /\ \A k \in 1..(i - 1) : ~EyyAt(s, k)

\* re.findall('[Ss]([0-9]+)[Ee]([0-9]+)', s)[0]: the two groups of the
\* leftmost match
FindSxxEyy(s) ==
  LET i == FirstSxxEyy(s)
      j == RunEnd(s, i + 1)
  IN  <<SubSeq(s, i + 1, j), SubSeq(s, j + 2, RunEnd(s, j + 2))>>

\* re.findall('[Ss]([0-9]+)', s)[0]: the group of the leftmost match
FindSxx(s) ==
  LET i == FirstSxx(s) IN SubSeq(s, i + 1, RunEnd(s, i + 1))

\* re.findall('[Ee]([0-9]+)', s)[0]
FindEyy(s) ==
  LET i == FirstEyy(s) IN SubSeq(s, i + 1, RunEnd(s, i + 1))

\* re.findall('[0-9]+', s): the empty list or the first run of digits
HasDigits(s) == \E i \in 1..Len(s) : s[i] \in Digits

FindDigits(s) ==
  LET i == CHOOSE p \in 1..Len(s) :
             s[p] \in Digits /\ \A k \in 1..(p - 1) : s[k] \notin Digits
  IN  SubSeq(s, i, RunEnd(s, i))

\* re.sub('[Ss][0-9]+[Ee][0-9]+', '', word)
RECURSIVE SubSxxEyy(_)
SubSxxEyy(s) ==
  IF ~SearchSxxEyy(s) THEN s
  ELSE LET i == FirstSxxEyy(s)
           j == RunEnd(s, i + 1)
           e == RunEnd(s, j + 2)
       IN  SubSeq(s, 1, i - 1) \o SubSxxEyy(SubSeq(s, e + 1, Len(s)))

\* '^\(([0-9]{4})\)$' matches the whole word
ParenYear(s) ==
  /\ Len(s) = 6
  /\ s[1] = "("
  /\ s[6] = ")"
  /\ \A k \in 2..5 : s[k] \in Digits

\* '[Tt]he\s(.*)' matches at the start of the title
LeadingThe(s) ==
  /\ Len(s) >= 4
  /\ s[1] \in {"T", "t"}
  /\ s[2] = "h"
  /\ s[3] = "e"
  /\ s[4] = " "

\* re.match('[Tt]he\s(.*)', title).group(1) + ', The'
SuffixThe(s) == SubSeq(s, 5, Len(s)) \o <<",", " ", "T", "h", "e">>

\* '{:02d}'.format(n) for n >= 0
RECURSIVE Decimal(_)
Decimal(n) ==
  IF n < 10 THEN <<DigitSeq[n + 1]>>
  ELSE Decimal(n \div 10) \o <<DigitSeq[(n % 10) + 1]>>

Format02d(n) == IF n < 10 THEN <<"0">> \o Decimal(n) ELSE Decimal(n)

(***************************************************************************)
(* State.                                                                  *)
(***************************************************************************)
VARIABLES
  config,                \* the configuration dictionary
  opts,                  \* the command-line options
  mediatype,             \* 'tv' or 'movie'
  root,                  \* cli_root: the source path given on the command line
  basename,              \* os.path.basename(srcpath) of the file in work
  pc,                    \* position in sort_tv_file / sort_movie_file
  filename,              \* the stem
  fileext,               \* the extension
  split_filename,        \* the tokens
  sxxeyy_idx,            \* sort_tv_file: index of the marker token
  season_id,             \* sort_tv_file
  episode_id,            \* sort_tv_file
  search_title,          \* search_series_title / search_movie_title
  show_data,             \* sort_tv_file: series still to be looked up
  found_episode,         \* sort_tv_file: the accepted episode lookup
  year_idx,              \* sort_movie_file: index of the year token
  search_movie_year,     \* sort_movie_file
  movie_list,            \* sort_movie_file: the provider's results
  movie_title,           \* sort_movie_file
  movie_year,            \* sort_movie_file
  requests,              \* the HTTP requests issued so far
  ret,                   \* the (dst_path, dst_file) a sort_*_file call returned
  raised,                \* the uncaught exception, or "none"
  srcpath,               \* sort_file: the file or directory of this call
  stack,                 \* sort_file: the directory loops in progress
  fs,                    \* the filesystem: directories, files, removals, commands
  returncode,            \* sort_file: the code the last finished call returned
  log                    \* the messages logged, in order

fileVars ==
  <<filename, fileext, split_filename, search_title, requests, ret, raised>>

tvVars == <<sxxeyy_idx, season_id, episode_id, show_data, found_episode>>

movieVars ==
  <<year_idx, search_movie_year, movie_list, movie_title, movie_year>>

batchVars == <<srcpath, stack, fs, returncode, log>>

inputVars == <<config, opts, mediatype, root>>

vars ==
  <<inputVars, basename, pc, fileVars, tvVars, movieVars, batchVars>>

None == "none"

\* the value of file_dst_path, file_dst_filename while no media function
\* has returned
Unbound == [dst_path |-> <<"unbound">>, dst_file |-> <<"unbound">>]

\* (False, False); False is written as the empty string, which is as falsy
\* and which no destination path or file name equals
Failure == [dst_path |-> <<>>, dst_file |-> <<>>]

(***************************************************************************)
(* The tokenizer (the same loop opens sort_tv_file and sort_movie_file).   *)
(***************************************************************************)
\* variant of SplitLoop: without the break, the last delimiter's split
SplitLoopLast(stem, chars, minlen, k) == StrSplit(stem, chars[Len(chars)])

\* for split_character in config['split_characters']: split, break when the
\* token count reaches min_split_length; the value left in split_filename
RECURSIVE SplitLoop(_, _, _, _)
SplitLoop(stem, chars, minlen, k) ==
  LET tokens == StrSplit(stem, chars[k])
  IN  IF Len(tokens) >= minlen \/ k = Len(chars) THEN tokens
      ELSE SplitLoop(stem, chars, minlen, k + 1)

TvSplitFilename(stem, cfg) ==
  SplitLoop(stem, cfg.split_characters, cfg.min_split_length, 1)

MovieSplitFilename(stem, cfg) ==
  SplitLoop(stem, cfg.split_characters, cfg.min_split_length, 1)

(***************************************************************************)
(* sort_tv_file                                                            *)
(***************************************************************************)
\* int(seid[0]) where seid is the string of one group: its first character
IntOfHead(seid) == ToInt(<<seid[1]>>)

\* variant of IntOfPair: the first character of each group, as IntOfHead
IntOfPairHeads(seid) == <<ToInt(<<seid[1][1]>>), ToInt(<<seid[2][1]>>)>>

\* int(seid[0]), int(seid[1]) where seid is the pair of groups
IntOfPair(seid) == <<ToInt(seid[1]), ToInt(seid[2])>>

ScanInit ==
  [sxxeyy_idx |-> 0, season_id |-> 0, episode_id |-> 0,
   next_match_flag_episode |-> FALSE, ctl |-> "next"]

\* if sxxeyy_idx < 1: sxxeyy_idx = idx
MarkIdx(st, idx) ==
  [st EXCEPT !.sxxeyy_idx = IF @ < 1 THEN idx ELSE @]

\* the 'Episode' branch of the loop body
ScanEpisodeWord(st, idx, element) ==
  IF ~(SearchEpisode(element) /\ st.sxxeyy_idx < 1) THEN st
  ELSE IF ~HasDigits(element)
       THEN [st EXCEPT !.sxxeyy_idx = idx, !.ctl = "IndexError"]
  ELSE IF FindDigits(element) = <<>>
       THEN [st EXCEPT !.sxxeyy_idx = idx, !.next_match_flag_episode = TRUE,
                       !.ctl = "continue"]
  ELSE [st EXCEPT !.sxxeyy_idx = idx,
                  !.episode_id = IntOfHead(FindDigits(element))]

\* the tail of the loop body: the deferred episode number, then the break
ScanTail(st, element) ==
  LET a == IF ~st.next_match_flag_episode THEN st
           ELSE IF ~HasDigits(element) THEN [st EXCEPT !.ctl = "IndexError"]
           ELSE [st EXCEPT !.episode_id = IntOfHead(FindDigits(element))]
  IN  IF a.ctl = "IndexError" THEN a
      ELSE IF a.episode_id > 0
           THEN [a EXCEPT !.season_id = IF @ = 0 THEN 1 ELSE @,
                          !.ctl = "break"]
      ELSE a

\* one pass of the loop body over element number idx
ScanElement(st, idx, element) ==
  IF SearchSxxEyy(element)
  THEN LET seid == IntOfPair(FindSxxEyy(element))
       IN  [st EXCEPT !.sxxeyy_idx = idx, !.season_id = seid[1],
                      !.episode_id = seid[2], !.ctl = "break"]
  ELSE LET a == IF SearchSxx(element)
                THEN [MarkIdx(st, idx) EXCEPT
                        !.season_id = IntOfHead(FindSxx(element))]
                ELSE st
           b == IF SearchEyy(element)
                THEN [MarkIdx(a, idx) EXCEPT
                        !.episode_id = IntOfHead(FindEyy(element))]
                ELSE a
           c == ScanEpisodeWord(b, idx, element)
       IN  IF c.ctl \in {"IndexError", "continue"} THEN c
           ELSE ScanTail(c, element)

\* for idx, element in enumerate(split_filename)
RECURSIVE ScanLoop(_, _, _)
ScanLoop(st, idx, tokens) ==
  IF idx >= Len(tokens) THEN st
  ELSE LET n == ScanElement(st, idx, tokens[idx + 1])
       IN  IF n.ctl \in {"break", "IndexError"} THEN n
           ELSE ScanLoop([n EXCEPT !.ctl = "next"], idx + 1, tokens)

Scan(tokens) == ScanLoop(ScanInit, 0, tokens)

\* the words of the series title: the marker is cut out of each word and a
\* word that is a year in parentheses is dropped
RECURSIVE FixTitleWords(_)
FixTitleWords(words) ==
  IF Len(words) = 0 THEN <<>>
  ELSE LET word == SubSxxEyy(words[1])
       IN  (IF ParenYear(word) THEN <<>> ELSE <<word>>)
             \o FixTitleWords(Tail(words))

RawSeriesTitle(tokens, idx) ==
  LET unfixed == SubSeq(tokens, 1, idx)
  IN  FixTitleWords(IF Len(unfixed) = 0 THEN SubSeq(tokens, 1, idx + 1)
                    ELSE unfixed)

ApplyOverride(table, key) == IF key \in DOMAIN table THEN table[key] ELSE key

SearchSeriesTitle(tokens, idx, cfg) ==
  ApplyOverride(cfg.search_overrides,
    StrJoin([i \in 1..Len(RawSeriesTitle(tokens, idx)) |->
               Lower(RawSeriesTitle(tokens, idx)[i])], <<" ">>))

\* series_title after tv_name_overrides and the suffix_the rewrite
TvSeriesTitle(name, cfg) ==
  LET t == ApplyOverride(cfg.tv_name_overrides, name)
  IN  IF cfg.suffix_the /\ LeadingThe(t) THEN SuffixThe(t) ELSE t

\* episode_title.replace('/', '-').replace('"', '')
TvEpisodeTitle(name) == StrReplace(StrReplace(name, "/", <<"-">>), "\"", <<>>)

\* '{dst}/{series}/Season {sid}'
TvDstPath(dst, series, sid) ==
  dst \o <<"/">> \o StrReplace(series, "/", <<"-">>)
      \o <<"/", "S", "e", "a", "s", "o", "n", " ">> \o Decimal(sid)

\* '{series} - S{sid:02d}E{eid:02d} - {title}' followed by the extension
TvDstFile(series, sid, eid, title, ext) ==
  StrReplace(series, "/", <<"-">>) \o <<" ", "-", " ", "S">> \o Format02d(sid)
      \o <<"E">> \o Format02d(eid) \o <<" ", "-", " ">> \o title \o ext

\* the destination root given on the command line
dstpath == <<"/", "m">>

\* what the metadata provider may answer
SeriesNames ==
  { <<"N", "i", "p", "/", "T", "u", "c", "k">>,
    <<"T", "h", "e", " ", "O", "C">> }

EpisodeNames ==
  { <<"P", "i", "l", "o", "t">>,
    <<"A", "/", "B", "\"", "C", "\"">> }

Return(value) ==
  /\ pc' = "return"
  /\ ret' = value

\* lines 50-66: the extension check and the tokenizer
TvEntry ==
  /\ pc = "tv_entry"
  /\ LET stem == SplitExt(basename)[1]
         ext == SplitExt(basename)[2]
         tokens == TvSplitFilename(stem, config)
     IN  /\ filename' = stem
         /\ fileext' = ext
         /\ IF ext \notin config.valid_extensions
            THEN /\ Return(Failure)
                 /\ UNCHANGED split_filename
            ELSE /\ split_filename' = tokens
                 /\ IF Len(tokens) < config.min_split_length
                    THEN Return(Failure)
                    ELSE pc' = "tv_scan" /\ UNCHANGED ret
  /\ UNCHANGED <<inputVars, basename, search_title, requests, raised,
                 tvVars, movieVars, batchVars>>

\* lines 68-125: the marker scan and the search title
TvScan ==
  /\ pc = "tv_scan"
  /\ LET st == Scan(split_filename)
     IN  /\ sxxeyy_idx' = st.sxxeyy_idx
         /\ season_id' = st.season_id
         /\ episode_id' = st.episode_id
         /\ IF st.ctl = "IndexError"
            THEN /\ pc' = "raised"
                 /\ raised' = "IndexError"
                 /\ UNCHANGED search_title
            ELSE /\ pc' = "tv_login"
                 /\ search_title' =
                      SearchSeriesTitle(split_filename, st.sxxeyy_idx, config)
                 /\ UNCHANGED raised
  /\ UNCHANGED <<inputVars, basename, filename, fileext,
                 split_filename, requests, ret, show_data, found_episode,
                 movieVars, batchVars>>

\* lines 127-141: the TVDB login
TvLogin ==
  /\ pc = "tv_login"
  /\ requests' = Append(requests, [kind |-> "tvdb_login"])
  /\ \E ok \in BOOLEAN :
       IF ok THEN pc' = "tv_search" /\ UNCHANGED ret
       ELSE Return(Failure)
  /\ UNCHANGED <<inputVars, basename, filename, fileext,
                 split_filename, search_title, raised, tvVars, movieVars,
                 batchVars>>

\* lines 143-154: the series search; n is the number of series returned
TvSearch ==
  /\ pc = "tv_search"
  /\ requests' =
       Append(requests, [kind |-> "tvdb_search", title |-> search_title])
  /\ \E ok \in BOOLEAN, n \in 0..MaxSeries :
       IF ok
       THEN /\ show_data' = [i \in 1..n |-> [tvdb_id |-> i]]
            /\ pc' = "tv_lookup"
            /\ UNCHANGED ret
       ELSE /\ n = 0
            /\ Return(Failure)
            /\ UNCHANGED show_data
  /\ UNCHANGED <<inputVars, basename, filename, fileext,
                 split_filename, search_title, raised, sxxeyy_idx, season_id,
                 episode_id, found_episode, movieVars, batchVars>>

\* lines 156-176: one pass of the loop over the series, or its end
TvLookup ==
  /\ pc = "tv_lookup"
  /\ IF Len(show_data) = 0
     THEN /\ Return(Failure)
          /\ UNCHANGED <<requests, show_data, found_episode>>
     ELSE /\ requests' =
               Append(requests,
                      [kind |-> "tvdb_series", id |-> Head(show_data).tvdb_id,
                       season |-> season_id, episode |-> episode_id])
          /\ \/ /\ show_data' = Tail(show_data)
                /\ UNCHANGED <<pc, ret, found_episode>>
             \/ \E series \in SeriesNames, name \in EpisodeNames :
                  /\ found_episode' = [series |-> series, episode |-> name]
                  /\ pc' = "tv_format"
                  /\ UNCHANGED <<ret, show_data>>
  /\ UNCHANGED <<inputVars, basename, filename, fileext,
                 split_filename, search_title, raised, sxxeyy_idx, season_id,
                 episode_id, movieVars, batchVars>>

\* lines 178-219: the destination path and file name
TvFormat ==
  /\ pc = "tv_format"
  /\ LET series_title == TvSeriesTitle(found_episode.series, config)
         episode_title == TvEpisodeTitle(found_episode.episode)
     IN  Return([dst_path |-> TvDstPath(dstpath, series_title, season_id),
                 dst_file |-> TvDstFile(series_title, season_id, episode_id,
                                        episode_title, fileext)])
  /\ UNCHANGED <<inputVars, basename, filename, fileext,
                 split_filename, search_title, requests, raised, tvVars,
                 movieVars, batchVars>>

SortTvFile == TvEntry \/ TvScan \/ TvLogin \/ TvSearch \/ TvLookup \/ TvFormat

\* what the movie provider may return
MoviePool ==
  { [title |-> <<"U", "p">>,
     release_date |-> <<"1", "9", "9", "9", "-", "0", "5", "-", "0", "1">>],
    [title |-> <<"A", "/", "B">>,
     release_date |-> <<"2", "0", "0", "0", "-", "0", "1", "-", "0", "1">>],
    [title |-> <<"T", "h", "e", " ", "X">>,
     release_date |-> <<"1", "9", "9", "8", "-", "1", "2", "-", "3", "1">>],
    [title |-> <<"N", "d">>, release_date |-> "absent"] }

(***************************************************************************)
(* sort_movie_file                                                         *)
(***************************************************************************)
\* re.match('^\(?([0-9]{4})\)?$', element)
YearMatch(element) ==
  \E a \in 0..1, b \in 0..1 :
    /\ Len(element) = a + 4 + b
    /\ a = 1 => element[1] = "("
    /\ b = 1 => element[Len(element)] = ")"
    /\ \A k \in (a + 1)..(a + 4) : element[k] \in Digits

\* match.group(1)
YearGroup(element) ==
  IF element[1] = "(" THEN SubSeq(element, 2, 5) ELSE SubSeq(element, 1, 4)

\* variant of YearLoop: with a break, the first year found is kept
RECURSIVE YearLoopFirst(_, _, _)
YearLoopFirst(st, idx, tokens) ==
  IF idx >= Len(tokens) THEN st
  ELSE IF YearMatch(tokens[idx + 1])
       THEN [year_idx |-> idx,
             search_movie_year |-> YearGroup(tokens[idx + 1])]
  ELSE YearLoopFirst(st, idx + 1, tokens)

\* the loop of lines 245-253 from element number idx on; st is
\* (year_idx, search_movie_year)
RECURSIVE YearLoop(_, _, _)
YearLoop(st, idx, tokens) ==
  IF idx >= Len(tokens) THEN st
  ELSE YearLoop(IF YearMatch(tokens[idx + 1])
                THEN [year_idx |-> idx,
                      search_movie_year |-> YearGroup(tokens[idx + 1])]
                ELSE st,
                idx + 1, tokens)

YearScan(tokens) ==
  YearLoop([year_idx |-> Len(tokens),
            search_movie_year |-> <<"0", "0", "0", "0">>], 0, tokens)

\* '+'.join([x.lower() for x in raw_movie_title])
JoinedMovieTitle(raw_movie_title) ==
  StrJoin([i \in 1..Len(raw_movie_title) |-> Lower(raw_movie_title[i])],
          <<"+">>)

\* '[Tt]he\+' matches at position i
ThePlusAt(s, i) ==
  /\ i + 3 <= Len(s)
  /\ s[i] \in {"T", "t"}
  /\ s[i + 1] = "h"
  /\ s[i + 2] = "e"
  /\ s[i + 3] = "+"

\* re.sub('[Tt]he\+', '', s, 1): the leftmost match is cut out
SubThePlus(s) ==
  IF ~(\E i \in 1..Len(s) : ThePlusAt(s, i)) THEN s
  ELSE LET p == CHOOSE i \in 1..Len(s) :
                  ThePlusAt(s, i) /\ \A k \in 1..(i - 1) : ~ThePlusAt(s, k)
       IN  SubSeq(s, 1, p - 1) \o SubSeq(s, p + 4, Len(s))

SearchMovieTitle(tokens, idx, cfg) ==
  ApplyOverride(cfg.search_overrides,
                SubThePlus(JoinedMovieTitle(SubSeq(tokens, 1, idx))))

NoDate == "absent"

\* movie.get('release_date', '0000-00-00').split('-')[0]
ReleaseYear(movie) ==
  StrSplit(IF movie.release_date = NoDate
           THEN <<"0", "0", "0", "0", "-", "0", "0", "-", "0", "0">>
           ELSE movie.release_date, "-")[1]

Unnamed == <<"u", "n", "n", "a", "m", "e", "d">>

Year0000 == <<"0", "0", "0", "0">>

\* one pass of the loop of lines 286-300; st is (movie_title, movie_year,
\* search_movie_year, brk)
ReconcileStep(st, movie) ==
  LET release_year ==
        IF ReleaseYear(movie) = <<>> THEN Year0000 ELSE ReleaseYear(movie)
      target ==
        IF st.search_movie_year = <<>> THEN Year0000
        ELSE st.search_movie_year
  IN  IF target = Year0000 \/ release_year = target
      THEN [movie_title |-> movie.title, movie_year |-> release_year,
            search_movie_year |-> target, brk |-> TRUE]
      ELSE IF \/ ToInt(release_year) = ToInt(target) + 1
              \/ ToInt(release_year) = ToInt(target) - 1
      THEN [movie_title |-> movie.title, movie_year |-> release_year,
            search_movie_year |-> target, brk |-> FALSE]
      ELSE [st EXCEPT !.search_movie_year = target]

RECURSIVE ReconcileLoop(_, _)
ReconcileLoop(st, movies) ==
  IF Len(movies) = 0 THEN st
  ELSE LET n == ReconcileStep(st, Head(movies))
       IN  IF n.brk THEN n ELSE ReconcileLoop(n, Tail(movies))

\* variant of Reconcile: a single result goes through the loop as well
ReconcileAlwaysLoop(movies, year) ==
  ReconcileLoop([movie_title |-> Unnamed, movie_year |-> Year0000,
                 search_movie_year |-> year, brk |-> FALSE], movies)

\* lines 277-300: the selection among the provider's results
Reconcile(movies, year) ==
  IF Len(movies) = 1
  THEN [movie_title |-> movies[1].title,
        movie_year |-> ReleaseYear(movies[1]),
        search_movie_year |-> year, brk |-> FALSE]
  ELSE ReconcileLoop([movie_title |-> Unnamed, movie_year |-> Year0000,
                      search_movie_year |-> year, brk |-> FALSE], movies)

\* movie_title after movie_name_overrides and the suffix_the rewrite
MovieDisplayTitle(title, cfg) ==
  LET t == ApplyOverride(cfg.movie_name_overrides, title)
  IN  IF cfg.suffix_the /\ LeadingThe(t) THEN SuffixThe(t) ELSE t

\* '{movie} ({year})'
MovieAndYear(movie, year) == movie \o <<" ", "(">> \o year \o <<")">>

\* '{dst}/{movie} ({year})'
MovieDstPath(dst, movie, year) == dst \o <<"/">> \o MovieAndYear(movie, year)

\* the labels of metainfo_map whose key matches some token, each once, in
\* the order of the map
RECURSIVE Metainfo(_, _, _)
Metainfo(map, tokens, acc) ==
  IF Len(map) = 0 THEN acc
  ELSE LET item == Head(map)
           hit == /\ \E k \in 1..Len(tokens) : tokens[k] = item.key
                  /\ \A k \in 1..Len(acc) : acc[k] # item.value
       IN  Metainfo(Tail(map), tokens,
                    IF hit THEN Append(acc, item.value) ELSE acc)

\* dst_name followed by the extension
MovieDstFile(movie, year, tag, map, tokens, ext) ==
  IF tag
  THEN MovieAndYear(movie, year) \o <<" ", "-", " ", "[">>
         \o StrJoin(Metainfo(map, tokens, <<>>), <<" ">>) \o <<"]">> \o ext
  ELSE MovieAndYear(movie, year) \o ext

\* lines 226-242: the extension check and the tokenizer
MovieEntry ==
  /\ pc = "movie_entry"
  /\ LET stem == SplitExt(basename)[1]
         ext == SplitExt(basename)[2]
         tokens == MovieSplitFilename(stem, config)
     IN  /\ filename' = stem
         /\ fileext' = ext
         /\ IF ext \notin config.valid_extensions
            THEN /\ Return(Failure)
                 /\ UNCHANGED split_filename
            ELSE /\ split_filename' = tokens
                 /\ IF Len(tokens) < config.min_split_length
                    THEN Return(Failure)
                    ELSE pc' = "movie_scan" /\ UNCHANGED ret
  /\ UNCHANGED <<inputVars, basename, search_title, requests, raised,
                 tvVars, movieVars, batchVars>>

\* lines 244-263: the year scan and the search title
MovieScan ==
  /\ pc = "movie_scan"
  /\ LET st == YearScan(split_filename)
     IN  /\ year_idx' = st.year_idx
         /\ search_movie_year' = st.search_movie_year
         /\ search_title' =
              SearchMovieTitle(split_filename, st.year_idx, config)
  /\ pc' = "movie_search"
  /\ UNCHANGED <<inputVars, basename, filename, fileext, split_filename,
                 requests, ret, raised, tvVars, movie_list, movie_title,
                 movie_year, batchVars>>

\* lines 265-277: the TMDB search; when the request or its decoding raises,
\* the handler formats show_url, a name sort_movie_file never binds
MovieSearch ==
  /\ pc = "movie_search"
  /\ requests' =
       Append(requests, [kind |-> "tmdb_search", title |-> search_title])
  /\ \/ /\ pc' = "raised"
        /\ raised' = "NameError"
        /\ UNCHANGED movie_list
     \/ \E results \in UNION {[1..n -> MoviePool] : n \in 0..MaxMovies} :
          /\ movie_list' = results
          /\ pc' = "movie_reconcile"
          /\ UNCHANGED raised
  /\ UNCHANGED <<inputVars, basename, filename, fileext, split_filename,
                 search_title, ret, tvVars, year_idx, search_movie_year,
                 movie_title, movie_year, batchVars>>

\* lines 278-304: the selection, and the failure when nothing was selected
MovieReconcile ==
  /\ pc = "movie_reconcile"
  /\ LET st == Reconcile(movie_list, search_movie_year)
     IN  /\ movie_title' = st.movie_title
         /\ movie_year' = st.movie_year
         /\ search_movie_year' = st.search_movie_year
         /\ IF st.movie_title = Unnamed
            THEN Return(Failure)
            ELSE pc' = "movie_format" /\ UNCHANGED ret
  /\ UNCHANGED <<inputVars, basename, filename, fileext, split_filename,
                 search_title, requests, raised, tvVars, year_idx, movie_list,
                 batchVars>>

\* lines 306-353: the destination path and file name
MovieFormat ==
  /\ pc = "movie_format"
  /\ LET title == MovieDisplayTitle(movie_title, config)
     IN  /\ movie_title' = title
         /\ Return([dst_path |-> MovieDstPath(dstpath, title, movie_year),
                    dst_file |-> MovieDstFile(title, movie_year,
                                              opts.metainfo_tag,
                                              config.metainfo_map,
                                              split_filename, fileext)])
  /\ UNCHANGED <<inputVars, basename, filename, fileext, split_filename,
                 search_title, requests, raised, tvVars, year_idx,
                 search_movie_year, movie_list, movie_year, batchVars>>

SortMovieFile ==
  MovieEntry \/ MovieScan \/ MovieSearch \/ MovieReconcile \/ MovieFormat

(***************************************************************************)
(* sort_file                                                               *)
(***************************************************************************)
\* the characters of the file names in code point order
CodePoints ==
  <<" ", "\"", "(", ")", "+", ",", "-", ".", "/">> \o DigitSeq
    \o UpperChars \o <<"[", "]">> \o LowerChars

Ord(c) == CHOOSE i \in 1..Len(CodePoints) : CodePoints[i] = c

\* a < b for Python strings
RECURSIVE StrLess(_, _)
StrLess(a, b) ==
  IF Len(b) = 0 THEN FALSE
  ELSE IF Len(a) = 0 THEN TRUE
  ELSE IF a[1] # b[1] THEN Ord(a[1]) < Ord(b[1])
  ELSE StrLess(Tail(a), Tail(b))

\* sorted(os.listdir(srcpath)): the children in the order of their names
RECURSIVE SortedListing(_)
SortedListing(children) ==
  IF children = {} THEN <<>>
  ELSE LET first == CHOOSE c \in children :
                      \A d \in children \ {c} : StrLess(c.name, d.name)
       IN  <<first>> \o SortedListing(children \ {first})

EmptyFs == [dirs |-> {}, files |-> {}, removed |-> {}, cmds |-> <<>>]

\* the command of lines 398-405
ActionCmd(action, src, dst) ==
  [cmd |-> CASE action = "symlink" -> "ln -s"
             [] action = "hardlink" -> "ln"
             [] action = "copy" -> "cp"
             [] action = "move" -> "mv",
   src |-> src, dst |-> dst]

\* variant of SortFileOutcome: the target directory is created before the
\* returned file name is looked at
SortFileOutcomeLateCheck(f, r, src, o, status) ==
  [fs |-> [f EXCEPT !.dirs = @ \cup {r.dst_path}],
   returncode |-> IF r.dst_file = <<>> THEN 1 ELSE status]

\* lines 379-469 of sort_file: from the (dst_path, dst_file) the media
\* function returned, the filesystem f, the options o and the exit status
\* of the action command, to the new filesystem and the return code
SortFileOutcome(f, r, src, o, status) ==
  IF r.dst_file = <<>> THEN [fs |-> f, returncode |-> 1]
  ELSE
    LET file_dst == r.dst_path \o <<"/">> \o r.dst_file
        made == IF r.dst_path \notin f.dirs /\ ~o.dryrun
                THEN [f EXCEPT !.dirs = @ \cup {r.dst_path}]
                ELSE f
        cleared == IF file_dst \in made.files
                   THEN [made EXCEPT !.files = @ \ {file_dst},
                                     !.removed = @ \cup {file_dst}]
                   ELSE made
        ran == [cleared EXCEPT
                  !.cmds = Append(@, ActionCmd(o.action, src, file_dst))]
        extras ==
          (IF o.infofile THEN {file_dst \o <<".", "t", "x", "t">>} ELSE {})
            \cup (IF o.shasum
                  THEN {file_dst \o <<".", "s", "h", "a", "2", "5", "6",
                                      "s", "u", "m">>}
                  ELSE {})
    IN  IF o.dryrun THEN [fs |-> made, returncode |-> 0]
        ELSE IF file_dst \in made.files /\ ~o.upgrade
        THEN [fs |-> made, returncode |-> 1]
        ELSE IF status # 0 THEN [fs |-> ran, returncode |-> status]
        ELSE [fs |-> [ran EXCEPT !.files = @ \cup {file_dst} \cup extras],
              returncode |-> status]

\* the exit statuses of the action command that are told apart
ExitStatuses == {0, 1}

\* the locals of a sort_tv_file or sort_movie_file call end with the call
DropLocals ==
  /\ filename' = <<>>
  /\ fileext' = <<>>
  /\ split_filename' = <<>>
  /\ search_title' = <<>>
  /\ requests' = <<>>
  /\ sxxeyy_idx' = 0
  /\ season_id' = 0
  /\ episode_id' = 0
  /\ show_data' = <<>>
  /\ found_episode' = None
  /\ year_idx' = 0
  /\ search_movie_year' = <<>>
  /\ movie_list' = <<>>
  /\ movie_title' = <<>>
  /\ movie_year' = <<>>

\* lines 356-377: a call of sort_file on srcpath: a directory starts its
\* loop over the sorted listing, a file goes to the media function
SortFileEnter ==
  /\ pc = "sort_file"
  /\ log' = Append(log, [msg |-> "Parsing", path |-> srcpath.name])
  /\ IF srcpath.kind = "dir"
     THEN /\ stack' = <<[dir |-> srcpath.name,
                         listing |-> SortedListing(srcpath.children)]>>
                        \o stack
          /\ pc' = "dir_loop"
          /\ UNCHANGED <<basename, fileVars, tvVars, movieVars>>
     ELSE /\ basename' = srcpath.name
          /\ pc' = IF mediatype = "tv" THEN "tv_entry" ELSE "movie_entry"
          /\ UNCHANGED <<stack, fileVars, tvVars, movieVars>>
  /\ UNCHANGED <<inputVars, srcpath, fs, returncode>>

\* lines 364-369: the next child of the directory on top, or return 0
DirLoop ==
  /\ pc = "dir_loop"
  /\ IF Len(Head(stack).listing) = 0
     THEN /\ returncode' = 0
          /\ stack' = Tail(stack)
          /\ pc' = "sort_file_return"
          /\ UNCHANGED srcpath
     ELSE /\ srcpath' = Head(Head(stack).listing)
          /\ stack' = <<[Head(stack) EXCEPT !.listing = Tail(@)]>>
                        \o Tail(stack)
          /\ pc' = "sort_file"
          /\ UNCHANGED returncode
  /\ UNCHANGED <<inputVars, basename, fileVars, tvVars, movieVars, fs, log>>

\* lines 379-469: the media function has returned
SortFileFinish ==
  /\ pc = "return"
  /\ \E status \in ExitStatuses :
       LET out == SortFileOutcome(fs, ret, basename, opts, status)
       IN  /\ fs' = out.fs
           /\ returncode' = out.returncode
  /\ pc' = "sort_file_return"
  /\ DropLocals
  /\ UNCHANGED <<inputVars, basename, ret, raised, srcpath, stack, log>>

\* the caller of a finished sort_file call: the directory loop (lines
\* 366-368) or cli_root (lines 599-602)
SortFileReturn ==
  /\ pc = "sort_file_return"
  /\ log' = IF returncode > 0
            THEN Append(log, [msg |-> "Failed",
                              path |-> IF Len(stack) = 0 THEN srcpath.name
                                       ELSE Head(stack).dir])
            ELSE log
  /\ pc' = IF Len(stack) = 0 THEN "exit" ELSE "dir_loop"
  /\ ret' = Unbound
  /\ UNCHANGED <<inputVars, basename, filename, fileext, split_filename,
                 search_title, requests, raised, tvVars, movieVars, srcpath,
                 stack, fs, returncode>>

\* an exception no handler catches unwinds every sort_file call and ends
\* the program
Propagate ==
  /\ pc = "raised"
  /\ stack' = <<>>
  /\ pc' = "aborted"
  /\ UNCHANGED <<inputVars, basename, fileVars, tvVars, movieVars, srcpath,
                 fs, returncode, log>>

SortFile ==
  SortFileEnter \/ DirLoop \/ SortFileFinish \/ SortFileReturn \/ Propagate

(***************************************************************************)
(* Inputs.                                                                 *)
(***************************************************************************)
Mkv == <<".", "m", "k", "v">>

Txt == <<".", "t", "x", "t">>

\* the tokens file names are built from
TvTokens ==
  { <<"S", "h", "o", "w">>,
    <<"B", "l", "u", "e", "2">>,
    <<"S", "0", "1", "E", "0", "2">>,
    <<"X", "s", "1", "0", "e", "1", "2">>,
    <<"S", "0", "2">>,
    <<"S", "1", "3">>,
    <<"E", "0", "5">>,
    <<"E", "1", "7">>,
    <<"E", "p", "i", "s", "o", "d", "e">>,
    <<"E", "p", "i", "s", "o", "d", "e", "4">>,
    <<"0", "6">>,
    <<"(", "1", "9", "8", "7", ")">> }

TokenSeqs(pool) == UNION {[1..n -> pool] : n \in 1..MaxTokens}

BaseConfig ==
  [valid_extensions |-> {Mkv},
   split_characters |-> <<" ", ".">>,
   min_split_length |-> 2,
   suffix_the |-> TRUE,
   search_overrides |->
     (<<"s", "h", "o", "w">> :> <<"s", "h", "o", "w", "s">>)
       @@ (<<"b", "a", "t", "h", "e">> :> <<"b", "a", "t", "h">>),
   tv_name_overrides |->
     (<<"T", "h", "e", " ", "O", "C">> :> <<"T", "h", "e", " ", "O", "/", "C">>),
   movie_name_overrides |-> (<<"U", "p">> :> <<"U", "p", "!">>),
   metainfo_map |->
     << [key |-> <<"2", "0", "0", "1">>, value |-> <<"H", "D">>],
        [key |-> <<"B", "a", "t", "h", "e">>, value |-> <<"H", "D">>],
        [key |-> <<"T", "h", "e">>, value |-> <<"X">>] >>]

\* the tokens movie file names are built from
MovieTokens ==
  { <<"T", "h", "e">>,
    <<"B", "a", "t", "h", "e">>,
    <<"2", "0", "0", "1">>,
    <<"(", "1", "9", "9", "9", ")">>,
    <<"1", "9", "6", "8", ")">>,
    <<"1", "9", "9", "9", "9">> }

DefaultOpts ==
  [action |-> "symlink", infofile |-> FALSE, shasum |-> FALSE,
   chown |-> FALSE, metainfo_tag |-> FALSE, upgrade |-> TRUE,
   dryrun |-> FALSE]

InitLocals ==
  /\ filename = <<>>
  /\ fileext = <<>>
  /\ split_filename = <<>>
  /\ search_title = <<>>
  /\ requests = <<>>
  /\ ret = Unbound
  /\ raised = None
  /\ sxxeyy_idx = 0
  /\ season_id = 0
  /\ episode_id = 0
  /\ show_data = <<>>
  /\ found_episode = None
  /\ year_idx = 0
  /\ search_movie_year = <<>>
  /\ movie_list = <<>>
  /\ movie_title = <<>>
  /\ movie_year = <<>>

InitNoBatch ==
  /\ root = None
  /\ srcpath = None
  /\ stack = <<>>
  /\ fs = EmptyFs
  /\ returncode = None
  /\ log = <<>>

(***************************************************************************)
(* sort_tv_file on one file whose name is built from TvTokens.             *)
(***************************************************************************)
InitTv ==
  /\ config \in {[BaseConfig EXCEPT !.suffix_the = b] : b \in BOOLEAN}
  /\ opts = DefaultOpts
  /\ mediatype = "tv"
  /\ basename \in {StrJoin(ts, <<".">>) \o Mkv : ts \in TokenSeqs(TvTokens)}
  /\ pc = "tv_entry"
  /\ InitLocals
  /\ InitNoBatch

SpecTv == InitTv /\ [][SortTvFile]_vars

(***************************************************************************)
(* sort_movie_file on one file whose name is built from MovieTokens.       *)
(***************************************************************************)
InitMovie ==
  /\ config = BaseConfig
  /\ opts = DefaultOpts
  /\ mediatype = "movie"
  /\ basename \in {StrJoin(ts, <<".">>) \o Mkv : ts \in TokenSeqs(MovieTokens)}
  /\ pc = "movie_entry"
  /\ InitLocals
  /\ InitNoBatch

SpecMovie == InitMovie /\ [][SortMovieFile]_vars

(***************************************************************************)
(* cli_root: sort_file on a file or on a directory of files.               *)
(***************************************************************************)
File(name) == [kind |-> "file", name |-> name]

Dir(name, children) == [kind |-> "dir", name |-> name, children |-> children]

\* the files found under the source path
FilePool ==
  { File(<<"S", "h", "o", "w", ".", "S", "0", "1", "E", "0", "2">> \o Mkv),
    File(<<"T", "h", "e", ".", "2", "0", "0", "1">> \o Mkv),
    File(<<"A", ".", "E", "p", "i", "s", "o", "d", "e">> \o Mkv),
    File(<<"S", "h", "o", "w">> \o Mkv),
    File(<<"n", "o", "t", "e", ".", "E", "7">> \o Txt) }

\* a subdirectory of the source directory
SubDir == Dir(<<"S", "u", "b">>, {File(<<"A", ".", "E", "0", "5">> \o Mkv)})

SourceTrees ==
  FilePool \cup
  {Dir(<<"s", "r", "c">>, c) :
     c \in {x \in SUBSET (FilePool \cup {SubDir}) :
              Cardinality(x) \in 1..MaxChildren}}

OptsPool ==
  { DefaultOpts,
    [DefaultOpts EXCEPT !.dryrun = TRUE, !.action = "hardlink"],
    [DefaultOpts EXCEPT !.upgrade = FALSE, !.action = "copy",
                        !.metainfo_tag = TRUE],
    [DefaultOpts EXCEPT !.action = "move", !.infofile = TRUE,
                        !.shasum = TRUE, !.chown = TRUE] }

Init ==
  /\ config = BaseConfig
  /\ opts \in OptsPool
  /\ mediatype \in {"tv", "movie"}
  /\ root \in SourceTrees
  /\ srcpath = root
  /\ basename = <<>>
  /\ pc = "sort_file"
  /\ InitLocals
  /\ stack = <<>>
  /\ fs = EmptyFs
  /\ returncode = None
  /\ log = <<>>

Next == SortFile \/ SortTvFile \/ SortMovieFile

Spec == Init /\ [][Next]_vars

(***************************************************************************)
(* The tokenizer of both media functions, over stems and configurations.   *)
(***************************************************************************)
StemChars == {"a", ".", " "}

SplitChars == {" ", ".", "_"}

InitSplit ==
  /\ config \in
       {[BaseConfig EXCEPT !.split_characters = cs, !.min_split_length = m] :
          cs \in UNION {[1..n -> SplitChars] : n \in 1..MaxDelims},
          m \in {2, 3}}
  /\ opts = DefaultOpts
  /\ mediatype \in {"tv", "movie"}
  /\ basename \in
       {stem \o Mkv : stem \in UNION {[1..n -> StemChars] : n \in 1..MaxStemLen}}
  /\ pc = IF mediatype = "tv" THEN "tv_entry" ELSE "movie_entry"
  /\ InitLocals
  /\ InitNoBatch

SpecSplit == InitSplit /\ [][TvEntry \/ MovieEntry]_vars

(***************************************************************************)
(* Properties.                                                             *)
(***************************************************************************)
\* sort_tv_file is past its marker scan, normally or by an exception
TvScanned ==
  \/ pc \in {"tv_login", "tv_search", "tv_lookup", "tv_format", "raised"}
  \/ pc = "return" /\ Len(requests) > 0

\* the token is the combined marker's: its digits as integers
CombinedValues(token) ==
  <<ToInt(FindSxxEyy(token)[1]), ToInt(FindSxxEyy(token)[2])>>

\* C1 as stated: when some token carries a combined S<digits>E<digits>
\* marker, the scan ends with the season and the episode of a combined
\* token, whatever the other tokens are.
C1_CombinedAlwaysWins ==
  (TvScanned /\ \E i \in 1..Len(split_filename) :
                  SearchSxxEyy(split_filename[i]))
    => /\ pc # "raised"
       /\ \E i \in 1..Len(split_filename) :
            /\ SearchSxxEyy(split_filename[i])
            /\ <<season_id, episode_id>> = CombinedValues(split_filename[i])

\* position of the first combined token that no token with an E<digits>
\* marker or the word Episode precedes, or 0
FirstCombined(tokens) ==
  IF \E i \in 1..Len(tokens) :
       /\ SearchSxxEyy(tokens[i])
       /\ \A k \in 1..(i - 1) :
            ~SearchEyy(tokens[k]) /\ ~SearchEpisode(tokens[k])
  THEN CHOOSE i \in 1..Len(tokens) :
         /\ SearchSxxEyy(tokens[i])
         /\ \A k \in 1..(i - 1) :
              ~SearchEyy(tokens[k]) /\ ~SearchEpisode(tokens[k])
  ELSE 0

\* C1 as amended: when a token carries a combined marker and no token before
\* it carries an E<digits> marker or the word Episode, the scan ends without
\* an exception, with the season and the episode of that token, whatever
\* the other tokens are.
C1_CombinedWinsWhenFirstEpisodeMarker ==
  (TvScanned /\ FirstCombined(split_filename) > 0)
    => /\ pc # "raised"
       /\ <<season_id, episode_id>> =
            CombinedValues(split_filename[FirstCombined(split_filename)])
       /\ sxxeyy_idx = FirstCombined(split_filename) - 1

\* a season-only token, then the combined token s10e12, then a third token
C1_Witness ==
  /\ pc = "tv_login"
  /\ Len(split_filename) = 3
  /\ SearchSxx(split_filename[1])
  /\ ~SearchSxxEyy(split_filename[1])
  /\ FirstCombined(split_filename) = 2
  /\ season_id = 10
  /\ episode_id = 12

\* C2: when some token carries an E<digits> marker and no token carries an
\* S<digits> marker, the season handed to the episode lookup and to the
\* destination name is 1.
C2_SeasonDefaultsToOne ==
  (/\ TvScanned
   /\ pc # "raised"
   /\ \E i \in 1..Len(split_filename) : SearchEyy(split_filename[i])
   /\ \A i \in 1..Len(split_filename) : ~SearchSxx(split_filename[i]))
    => season_id = 1

\* the token carries no season or episode marker of any family
NoMarker(token) ==
  /\ ~SearchSxxEyy(token)
  /\ ~SearchSxx(token)
  /\ ~SearchEyy(token)
  /\ ~SearchEpisode(token)

\* C3: when no token carries a marker, sort_tv_file issues no series search
\* and returns (False, False).
C3_NoMarkerFails ==
  (TvScanned /\ \A i \in 1..Len(split_filename) : NoMarker(split_filename[i]))
    => /\ \A k \in 1..Len(requests) : requests[k].kind # "tvdb_search"
       /\ pc = "return" => ret = Failure

\* the names of the files under a source tree
RECURSIVE FilesUnder(_)
FilesUnder(node) ==
  IF node.kind = "file" THEN {node.name}
  ELSE UNION {FilesUnder(c) : c \in node.children}

Parsed == {log[k].path : k \in {j \in 1..Len(log) : log[j].msg = "Parsing"}}

\* C4: when the source is a directory, the failure of one file (here: of its
\* metadata lookup; runs ended by another exception are left aside) does
\* not keep any other file from being processed: at the end every file of
\* the listing has been parsed.
C4_BatchSurvivesFailure ==
  (/\ pc \in {"exit", "aborted"}
   /\ raised \in {None, "NameError"})
    => \A n \in FilesUnder(root) : n \in Parsed

\* C5: when the media function returns (False, False), sort_file returns a
\* non-zero code and leaves the filesystem as it was: no directory created,
\* no file removed, no command run.
C5_FailureTouchesNothing ==
  [][(pc = "return" /\ ret = Failure)
       => (fs' = fs /\ returncode' # 0)]_vars

\* a failed file after an earlier file of the same run was sorted
C5_Witness ==
  /\ pc = "sort_file_return"
  /\ ret = Failure
  /\ returncode = 1
  /\ fs.dirs # {}
  /\ Len(fs.cmds) = 1

\* int(release_year) of a result, the empty year being '0000'
YearOf(movie) ==
  IF ReleaseYear(movie) = <<>> THEN 0 ELSE ToInt(ReleaseYear(movie))

NearYear(movie, target) ==
  YearOf(movie) = ToInt(target) + 1 \/ YearOf(movie) = ToInt(target) - 1

\* C6: among two or more results, with a year given in the file name and no
\* result of exactly that year, the first result within one year of it is
\* the one selected.
C6_FirstNearYearWins ==
  (/\ pc = "movie_format"
   /\ Len(movie_list) >= 2
   /\ search_movie_year # Year0000
   /\ \A k \in 1..Len(movie_list) :
        YearOf(movie_list[k]) # ToInt(search_movie_year)
   /\ \E k \in 1..Len(movie_list) : NearYear(movie_list[k], search_movie_year))
    => LET first == CHOOSE k \in 1..Len(movie_list) :
                      /\ NearYear(movie_list[k], search_movie_year)
                      /\ \A j \in 1..(k - 1) :
                           ~NearYear(movie_list[j], search_movie_year)
       IN  /\ movie_title = movie_list[first].title
           /\ ToInt(movie_year) = YearOf(movie_list[first])

\* sort_movie_file is past its year scan
MovieScanned ==
  pc \in {"movie_search", "movie_reconcile", "movie_format", "raised"}
    \/ (pc = "return" /\ Len(requests) > 0)

\* the digits of a token, in order
DigitsOf(token) == SelectSeq(token, LAMBDA c : c \in Digits)

\* C7: the search year is the four digits of the last token that is four
\* digits with an optional parenthesis on either side, and the title tokens
\* are the tokens before it; without such a token the year is "0000" and
\* every token is a title token.
C7_LastYearTokenWins ==
  MovieScanned =>
    LET years == {i \in 1..Len(split_filename) : YearMatch(split_filename[i])}
    IN  IF years = {}
        THEN /\ search_movie_year = Year0000
             /\ year_idx = Len(split_filename)
        ELSE LET last == CHOOSE i \in years : \A k \in years : k <= i
             IN  /\ search_movie_year = DigitsOf(split_filename[last])
                 /\ year_idx = last - 1

\* two year tokens, the later one in parentheses, then one more token
C7_Witness ==
  /\ pc = "movie_search"
  /\ Len(split_filename) = 3
  /\ split_filename[1] = <<"2", "0", "0", "1">>
  /\ split_filename[2] = <<"(", "1", "9", "9", "9", ")">>
  /\ ~YearMatch(split_filename[3])
  /\ search_movie_year = <<"1", "9", "9", "9">>
  /\ year_idx = 1

\* the media function is past its tokenizer
Tokenized == pc \in {"tv_scan", "movie_scan", "return"}

\* the configured delimiters whose split of the stem is long enough
Qualifying(stem, cfg) ==
  {k \in 1..Len(cfg.split_characters) :
     Len(StrSplit(stem, cfg.split_characters[k])) >= cfg.min_split_length}

\* C8: in sort_tv_file and in sort_movie_file alike, the tokens are the
\* split on the first configured delimiter that yields min_split_length
\* tokens or more; when no delimiter does, the function returns
\* (False, False).
C8_FirstQualifyingDelimiter ==
  (Tokenized /\ fileext \in config.valid_extensions) =>
    LET q == Qualifying(filename, config)
    IN  IF q = {}
        THEN pc = "return" /\ ret = Failure
        ELSE LET first == CHOOSE k \in q : \A j \in q : k <= j
             IN  /\ pc = IF mediatype = "tv" THEN "tv_scan" ELSE "movie_scan"
                 /\ split_filename =
                      StrSplit(filename, config.split_characters[first])

\* two delimiters qualify, their splits differ, and the first one's is used
C8_Witness ==
  /\ pc = "movie_scan"
  /\ Len(config.split_characters) = 2
  /\ Qualifying(filename, config) = {1, 2}
  /\ StrSplit(filename, config.split_characters[1])
       # StrSplit(filename, config.split_characters[2])
  /\ split_filename = StrSplit(filename, config.split_characters[1])

\* C9: a single result is accepted whatever the year in the file name:
\* its title and its release year are the ones selected and the function
\* does not fail.
C9_SingleResultAccepted ==
  Len(movie_list) = 1 =>
    /\ pc = "movie_format" =>
         /\ movie_title = movie_list[1].title
         /\ movie_year = ReleaseYear(movie_list[1])
    /\ pc = "return" => ret # Failure

\* a single result three years away from the year in the file name
C9_Witness ==
  /\ pc = "movie_format"
  /\ Len(movie_list) = 1
  /\ search_movie_year = <<"2", "0", "0", "1">>
  /\ movie_year = <<"1", "9", "9", "8">>

\* C10: the title brings no "/" into the destination: the directory has the
\* separators of the destination root and of the layout only, and the file
\* name has none.
C10_TitleAddsNoSeparator ==
  (pc = "return" /\ ret # Failure) =>
    /\ Count(ret.dst_path, "/") =
         Count(dstpath, "/") + (IF mediatype = "tv" THEN 2 ELSE 1)
    /\ Count(ret.dst_file, "/") = 0

\* the title tokens of a movie file name: the ones before the year token
TitleTokens == SubSeq(split_filename, 1, year_idx)

\* C11: when the first title token is not "the" in any letter case, the
\* query built from the file name is the lowercased title tokens joined with
\* "+", with nothing removed; the query of the request is that text after
\* the lookup in search_overrides.
C11_OnlyLeadingTheRemoved ==
  (/\ MovieScanned
   /\ Len(TitleTokens) > 0
   /\ Lower(TitleTokens[1]) # <<"t", "h", "e">>)
    => search_title =
         ApplyOverride(config.search_overrides, JoinedMovieTitle(TitleTokens))

\* the positions of the tokens with an S<digits> marker, with an E<digits>
\* marker
SeasonTokens == {i \in 1..Len(split_filename) : SearchSxx(split_filename[i])}

EpisodeTokens == {i \in 1..Len(split_filename) : SearchEyy(split_filename[i])}

\* C12: when no token carries a combined marker or the word Episode, the
\* episode is the integer value of the whole digit string of a token with
\* an E<digits> marker, and the season is the integer value of the whole
\* digit string of a token with an S<digits> marker when such a token
\* stands before every E<digits> token.
C12_SeparateMarkersWholeDigits ==
  (/\ TvScanned
   /\ \A i \in 1..Len(split_filename) :
        ~SearchSxxEyy(split_filename[i]) /\ ~SearchEpisode(split_filename[i]))
    => /\ pc # "raised"
       /\ EpisodeTokens # {} =>
            \E i \in EpisodeTokens :
              episode_id = ToInt(FindEyy(split_filename[i]))
       /\ (\E i \in SeasonTokens : \A k \in EpisodeTokens : i < k) =>
            \E i \in SeasonTokens :
              season_id = ToInt(FindSxx(split_filename[i]))

\* position of a token with the word Episode and no digit, that only tokens
\* without a marker precede and that a token with digits and without a
\* marker follows; 0 when there is none
BareEpisodeWord(tokens) ==
  IF \E i \in 1..(Len(tokens) - 1) :
       /\ SearchEpisode(tokens[i]) /\ ~HasDigits(tokens[i])
       /\ \A k \in 1..(i - 1) : NoMarker(tokens[k])
       /\ HasDigits(tokens[i + 1]) /\ NoMarker(tokens[i + 1])
  THEN CHOOSE i \in 1..(Len(tokens) - 1) :
         /\ SearchEpisode(tokens[i]) /\ ~HasDigits(tokens[i])
         /\ \A k \in 1..(i - 1) : NoMarker(tokens[k])
         /\ HasDigits(tokens[i + 1]) /\ NoMarker(tokens[i + 1])
  ELSE 0

\* C13: when the first marker is the word Episode in a token without digits
\* and the next token has digits, the scan ends without an exception, the
\* episode is the number in the next token and the season is 1.
C13_EpisodeWordDefers ==
  (TvScanned /\ BareEpisodeWord(split_filename) > 0)
    => /\ pc # "raised"
       /\ episode_id =
            ToInt(FindDigits(split_filename[BareEpisodeWord(split_filename) + 1]))
       /\ season_id = 1


=============================================================================
